---- MODULE Spec2Model ----
(***************************************************************************)
(* The loader editor of installer/bashrc.py, update_loader_in_script, as a *)
(* state machine over the two files it touches: the script at script_path  *)
(* and the scratch file made by tempfile.NamedTemporaryFile.               *)
(*                                                                         *)
(* A file's contents are the text Python's text-mode file object presents: *)
(* a sequence of tokens, where the token NL is the newline character and   *)
(* every other token is a run of characters holding no newline.  Lines are *)
(* what iterating the file object yields: each ends with NL, except        *)
(* possibly the last one.  Contents are "\n"-terminated text; the newline  *)
(* translation of text mode ("\r\n" on read, os.linesep on write) is not   *)
(* part of the model.                                                      *)
(*                                                                         *)
(* Two more parts of the installer are modelled, each under a specification*)
(* of its own: the runs of installer/__main__.py that read and save the    *)
(* install configuration (SpecInstaller) and its force_remove_dir          *)
(* (SpecRemove).                                                           *)
(***************************************************************************)
EXTENDS Naturals, Sequences, FiniteSets

\* ------------------------------------------------------------------ bounds

\* The initial script holds at most MaxLines newline-terminated lines, and
\* possibly one more line with no newline at its end.
MaxLines == 4

\* update_loader_in_script is called at most MaxCalls times on the script.
MaxCalls == 2

\* The tree force_remove_dir removes holds MaxPaths paths.
MaxPaths == 3

\* ----------------------------------------------------------- text constants

NL == "\n"

BASH_SHEBANG == <<"#!/bin/bash", NL>>

LOADER_UUID == "b52960a2-e8ed-4833-a86f-9aa7b401a557"

\* The sentinel's characters without the newline that ends the line.
LOADER_START_TEXT == <<"# >>> BYTESIZED BASHRC LOADER START(", LOADER_UUID, ") >>>">>

LOADER_END_TEXT == <<"# <<< BYTESIZED BASHRC LOADER END(", LOADER_UUID, ") <<<">>

LOADER_START_SENTINEL == LOADER_START_TEXT \o <<NL>>

LOADER_END_SENTINEL == LOADER_END_TEXT \o <<NL>>

BASHRC_PATH_SIGIL == "__BASHRC_PATH__"

\* The triple-quoted literal, before .strip(): it starts and ends with a newline.
LOADER_CODE_LITERAL ==
  << NL,
     "# Do not tamper with this code or the surrounding sentinels.", NL,
     "# To remove this, it is best to run the bytesized utilities uninstaller.", NL,
     "# For more info, see: https://github.com/bytesized/utilities", NL,
     "if [[ -r \"", BASHRC_PATH_SIGIL, "\" && \"$_B_BASHRC_LOADED\" != \"true\" ]]", NL,
     "then", NL,
     "  . \"", BASHRC_PATH_SIGIL, "\"", NL,
     "fi", NL >>

\* str.strip(): the text without its leading and trailing whitespace.
RECURSIVE Strip(_)
Strip(s) ==
  IF s = <<>> THEN <<>>
  ELSE IF Head(s) = NL THEN Strip(Tail(s))
  ELSE IF s[Len(s)] = NL THEN Strip(SubSeq(s, 1, Len(s) - 1))
  ELSE s

LOADER_CODE == Strip(LOADER_CODE_LITERAL) \o <<NL>>

\* str.replace(old, new)
Replace(s, old, new) == [i \in DOMAIN s |-> IF s[i] = old THEN new ELSE s[i]]

\* A faulty LoaderCode: the sigil is never replaced.
LoaderCodeUnfilled(target) == LOADER_CODE

\* loader_code of a call: LOADER_CODE with the load target filled in.
LoaderCode(target) == Replace(LOADER_CODE, BASHRC_PATH_SIGIL, target)

BadFileContents == "BadFileContents"

\* ------------------------------------------------------------------- files

NoFile == [exists |-> FALSE, data |-> <<>>]

File(d) == [exists |-> TRUE, data |-> d]

\* The length of the first line of text d: up to and including its first NL,
\* or all of d when it holds none.
FirstLineLen(d) ==
  IF \E i \in 1..Len(d) : d[i] = NL
  THEN CHOOSE i \in 1..Len(d) : d[i] = NL /\ \A j \in 1..(i - 1) : d[j] # NL
  ELSE Len(d)

\* What one step of "for line in orig_file" reads from the unread text d.
ReadLine(d) == SubSeq(d, 1, FirstLineLen(d))

AfterLine(d) == SubSeq(d, FirstLineLen(d) + 1, Len(d))

\* All the lines of text d, as iterating the file yields them.
RECURSIVE ReadLines(_)
ReadLines(d) ==
  IF d = <<>> THEN <<>> ELSE <<ReadLine(d)>> \o ReadLines(AfterLine(d))

RECURSIVE Flatten(_)
Flatten(ls) == IF ls = <<>> THEN <<>> ELSE Head(ls) \o Flatten(Tail(ls))

\* ----------------------------------------------------------- initial inputs

ORDINARY_TEXT == "export EDITOR=vim"

\* The newline-terminated lines an initial script is built from: a blank line,
\* an ordinary line, and the two sentinels.
InitialLines ==
  { <<NL>>, <<ORDINARY_TEXT, NL>>, LOADER_START_SENTINEL, LOADER_END_SENTINEL }

\* A last line with no newline at its end (or none).
InitialTails == { <<>>, <<ORDINARY_TEXT>>, LOADER_START_TEXT, LOADER_END_TEXT }

InitialTexts ==
  { Flatten(ls) \o t :
      ls \in UNION { [1..n -> InitialLines] : n \in 0..MaxLines },
      t \in InitialTails }

InitialFiles == { NoFile } \cup { File(d) : d \in InitialTexts }

\* The values of load_target.
LoadTargets == { "/repo/config/universal.bashrc", "/old/config/universal.bashrc" }

NoCall ==
  [ called |-> FALSE, remove_loader |-> FALSE, load_target |-> "",
    result |-> "none", before |-> NoFile ]

\* ------------------------------------------------------------------- state

VARIABLES
  script_file,        \* the file at script_path
  temp_file,          \* the file at temp_path
  pc,                 \* where the current call stands
  remove_loader,      \* argument
  load_target,        \* argument
  old_loader_found,   \* local
  last_line,          \* local
  in_marked_section,  \* local
  just_wrote_loader,  \* local
  orig_file,          \* the text of script_path the open file object has not read yet
  result,             \* how the last call ended: "none", "ok" or BadFileContents
  before,             \* the file at script_path when the current call began
  prev,               \* the call before the current one
  ncalls              \* calls begun

vars ==
  << script_file, temp_file, pc, remove_loader, load_target, old_loader_found,
     last_line, in_marked_section, just_wrote_loader, orig_file, result, before,
     prev, ncalls >>

args == << remove_loader, load_target >>

\* The state of a run of installer/__main__.py.
VARIABLES
  install_json,       \* the file at install_config_path
  run_pc,             \* where the current run stands
  json_config,        \* what the run read from install_config_path
  cli,                \* the command line of the run
  config,             \* the run's config
  last_run            \* the run before the current one

installer_vars == << install_json, run_pc, json_config, cli, config, last_run >>

\* The state of a call of force_remove_dir.
VARIABLES
  rm_pc,              \* where the call stands
  already_fixed,      \* local
  ex,                 \* the exception the last shutil.rmtree raised
  outcomes,           \* how each shutil.rmtree of the call ended, in order
  chmods              \* how often the call has run os.chmod on each path

remove_vars == << rm_pc, already_fixed, ex, outcomes, chmods >>

all_vars == << vars, installer_vars, remove_vars >>

\* What a call of update_loader_in_script leaves alone.
outside_script == << installer_vars, remove_vars >>

\* The keys of config_options.
Toggles == { "mozilla", "build", "configure", "python" }

\* ConfigValue.default of each option.
Default(t) == IF t = "mozilla" THEN FALSE ELSE TRUE

\* No file at a path of the configuration, and nothing read from it.
NoConfig == [exists |-> FALSE, data |-> [t \in Toggles |-> FALSE]]

ConfigFile(c) == [exists |-> TRUE, data |-> c]

NoCli ==
  [ uninstall |-> FALSE, leave_config |-> FALSE, given |-> [t \in Toggles |-> "none"] ]

NoRun ==
  [ ran |-> FALSE, uninstall |-> FALSE, completed |-> FALSE,
    config |-> [t \in Toggles |-> FALSE] ]

\* No run of the installer has begun.
InstallerIdle ==
  /\ install_json = NoConfig
  /\ run_pc = "idle"
  /\ json_config = NoConfig
  /\ cli = NoCli
  /\ config = [t \in Toggles |-> Default(t)]
  /\ last_run = NoRun

\* The paths of the tree.
Paths == 1..MaxPaths

NoException == [kind |-> "none", filename |-> 0]

\* force_remove_dir has not been called.
RemoveIdle ==
  /\ rm_pc = "idle"
  /\ already_fixed = {}
  /\ ex = NoException
  /\ outcomes = <<>>
  /\ chmods = [p \in Paths |-> 0]

history == << before, prev, ncalls >>

\* update_loader_in_script has not been called on the script.
ScriptIdle ==
  /\ temp_file = NoFile
  /\ pc = "idle"
  /\ remove_loader = FALSE
  /\ load_target = ""
  /\ old_loader_found = FALSE
  /\ last_line = <<NL>>
  /\ in_marked_section = FALSE
  /\ just_wrote_loader = FALSE
  /\ orig_file = <<>>
  /\ result = "none"
  /\ before = NoFile
  /\ prev = NoCall
  /\ ncalls = 0

Init ==
  /\ InstallerIdle
  /\ RemoveIdle
  /\ script_file \in InitialFiles
  /\ temp_file = NoFile
  /\ pc = "idle"
  /\ remove_loader = FALSE
  /\ load_target = ""
  /\ old_loader_found = FALSE
  /\ last_line = <<NL>>
  /\ in_marked_section = FALSE
  /\ just_wrote_loader = FALSE
  /\ orig_file = <<>>
  /\ result = "none"
  /\ before = NoFile
  /\ prev = NoCall
  /\ ncalls = 0

\* Control leaves update_loader_in_script: its locals are gone.
Leave(how) ==
  /\ pc' = "done"
  /\ result' = how
  /\ old_loader_found' = FALSE
  /\ last_line' = <<NL>>
  /\ in_marked_section' = FALSE
  /\ just_wrote_loader' = FALSE
  /\ orig_file' = <<>>

\* ----------------------------------------------------------------- helpers

\* A faulty WritesLoader: remove_loader is not looked at.
WritesLoaderAlsoOnRemove(found, remove) == ~found

\* Line 143: the loader is written at a start sentinel.
WritesLoader(found, remove) == ~found /\ ~remove

\* A faulty BlankBefore: the extra line is written whatever the last line was.
BlankBeforeAlways(last) == <<NL>>

\* Lines 145-146: an extra line before the loader.
BlankBefore(last) == IF last # <<NL>> THEN <<NL>> ELSE <<>>

\* A faulty BlankAfter: the extra line is never written.
BlankAfterNever(just_wrote, line) == <<>>

\* Lines 155-156: an extra line after the loader.
BlankAfter(just_wrote, line) == IF just_wrote /\ line # <<NL>> THEN <<NL>> ELSE <<>>

\* A faulty AppendSeparator: a last line with no newline is treated like any
\* other non-blank line.
AppendSeparatorOneNewline(last) == IF last # <<NL>> THEN <<NL>> ELSE <<>>

\* Lines 189-192: what is appended before the loader at the end of the script.
AppendSeparator(last) ==
  IF last = <<>> \/ last[Len(last)] # NL THEN <<NL, NL>>
  ELSE IF last # <<NL>> THEN <<NL>>
  ELSE <<>>

\* The three writes of the loader: lines 147-149, 175-177, 193-195.
LoaderBlock(target) == LOADER_START_SENTINEL \o LoaderCode(target) \o LOADER_END_SENTINEL

\* ----------------------------------------------------------------- actions

\* Lines 120-130: the call, its arguments, and the locals set before the try.
Call ==
  /\ pc \in {"idle", "done"}
  /\ ncalls < MaxCalls
  /\ \E r \in BOOLEAN, t \in LoadTargets :
       /\ remove_loader' = r
       /\ load_target' = t
  /\ prev' = IF pc = "done"
             THEN [ called |-> TRUE, remove_loader |-> remove_loader,
                    load_target |-> load_target, result |-> result,
                    before |-> before ]
             ELSE prev
  /\ before' = script_file
  /\ ncalls' = ncalls + 1
  /\ result' = "none"
  /\ old_loader_found' = FALSE
  /\ last_line' = <<NL>>
  /\ pc' = "open"
  /\ UNCHANGED << script_file, temp_file, in_marked_section, just_wrote_loader,
                  orig_file >>
  /\ UNCHANGED outside_script

\* A faulty OpenMissingRemove: the script is created although remove_loader is set.
OpenMissingRemoveCreates ==
  /\ pc = "open"
  /\ ~script_file.exists
  /\ remove_loader
  /\ script_file' = File(BASH_SHEBANG \o <<NL>> \o LoaderBlock(load_target))
  /\ Leave("ok")
  /\ UNCHANGED << temp_file, args, history >>
  /\ UNCHANGED outside_script

\* Line 132 raising FileNotFoundError, lines 170-171 and 178 with remove_loader.
OpenMissingRemove ==
  /\ pc = "open"
  /\ ~script_file.exists
  /\ remove_loader
  /\ Leave("ok")
  /\ UNCHANGED << script_file, temp_file, args, history >>
  /\ UNCHANGED outside_script

\* A faulty OpenMissingCreate: the blank line after the shebang is left out.
OpenMissingCreateNoBlank ==
  /\ pc = "open"
  /\ ~script_file.exists
  /\ ~remove_loader
  /\ script_file' = File(BASH_SHEBANG \o LoaderBlock(load_target))
  /\ Leave("ok")
  /\ UNCHANGED << temp_file, args, history >>
  /\ UNCHANGED outside_script

\* Line 132 raising FileNotFoundError, lines 170-178 without remove_loader.
OpenMissingCreate ==
  /\ pc = "open"
  /\ ~script_file.exists
  /\ ~remove_loader
  /\ script_file' = File(BASH_SHEBANG \o <<NL>> \o LoaderBlock(load_target))
  /\ Leave("ok")
  /\ UNCHANGED << temp_file, args, history >>
  /\ UNCHANGED outside_script

\* Lines 132-136: both files open.
OpenExisting ==
  /\ pc = "open"
  /\ script_file.exists
  /\ orig_file' = script_file.data
  /\ temp_file' = File(<<>>)
  /\ in_marked_section' = FALSE
  /\ just_wrote_loader' = FALSE
  /\ pc' = "scan"
  /\ UNCHANGED << script_file, args, old_loader_found, last_line, result, history >>
  /\ UNCHANGED outside_script

\* Lines 137-166: one turn of the loop.
ScanLine ==
  /\ pc = "scan"
  /\ orig_file # <<>>
  /\ LET line == ReadLine(orig_file)
         is_start == line = LOADER_START_SENTINEL
         is_end == line = LOADER_END_SENTINEL
         raise_start == is_start /\ in_marked_section
         marked1 == IF is_start THEN TRUE ELSE in_marked_section
         writes == is_start /\ WritesLoader(old_loader_found, remove_loader)
         temp1 == IF writes
                  THEN temp_file.data \o BlankBefore(last_line)
                         \o LoaderBlock(load_target)
                  ELSE temp_file.data
         wrote1 == IF writes THEN TRUE ELSE just_wrote_loader
         found1 == IF is_start THEN TRUE ELSE old_loader_found
         temp2 == IF ~marked1
                  THEN temp1 \o BlankAfter(wrote1, line) \o line
                  ELSE temp1
         wrote2 == IF ~marked1 THEN FALSE ELSE wrote1
         raise_end == is_end /\ ~marked1
         marked2 == IF is_end THEN FALSE ELSE marked1
     IN  IF raise_start
         THEN /\ Leave(BadFileContents)
              /\ UNCHANGED temp_file
         ELSE IF raise_end
         THEN /\ Leave(BadFileContents)
              /\ temp_file' = File(temp2)
         ELSE /\ temp_file' = File(temp2)
              /\ in_marked_section' = marked2
              /\ just_wrote_loader' = wrote2
              /\ old_loader_found' = found1
              /\ last_line' = line
              /\ orig_file' = AfterLine(orig_file)
              /\ UNCHANGED << pc, result >>
  /\ UNCHANGED << script_file, args, history >>
  /\ UNCHANGED outside_script

\* A faulty ScanEndRaise: the end of the file inside a marked section is found
\* only after the scratch file has taken the script's place.
ScanEndRaiseAfterReplace ==
  /\ pc = "scan"
  /\ orig_file = <<>>
  /\ in_marked_section
  /\ script_file' = temp_file
  /\ temp_file' = NoFile
  /\ Leave(BadFileContents)
  /\ UNCHANGED << args, history >>
  /\ UNCHANGED outside_script

\* A faulty ScanEndRaise: the end of the file inside a marked section is not
\* looked for, and the call goes on.
ScanEndUnchecked ==
  /\ pc = "scan"
  /\ orig_file = <<>>
  /\ in_marked_section
  /\ pc' = "commit"
  /\ UNCHANGED << script_file, temp_file, args, old_loader_found, last_line,
                  in_marked_section, just_wrote_loader, orig_file, result, history >>
  /\ UNCHANGED outside_script

\* Lines 168-169: the end of the file inside a marked section.
ScanEndRaise ==
  /\ pc = "scan"
  /\ orig_file = <<>>
  /\ in_marked_section
  /\ Leave(BadFileContents)
  /\ UNCHANGED << script_file, temp_file, args, history >>
  /\ UNCHANGED outside_script

\* The loop and both with blocks end normally.
ScanEnd ==
  /\ pc = "scan"
  /\ orig_file = <<>>
  /\ ~in_marked_section
  /\ pc' = "commit"
  /\ UNCHANGED << script_file, temp_file, args, old_loader_found, last_line,
                  in_marked_section, just_wrote_loader, orig_file, result, history >>
  /\ UNCHANGED outside_script

\* Lines 180-182: os.remove(script_path).
RemoveScript ==
  /\ pc = "commit"
  /\ old_loader_found
  /\ script_file' = NoFile
  /\ pc' = "rename"
  /\ UNCHANGED << temp_file, args, old_loader_found, last_line, in_marked_section,
                  just_wrote_loader, orig_file, result, history >>
  /\ UNCHANGED outside_script

\* Line 183: os.rename(temp_path, script_path).
RenameTemp ==
  /\ pc = "rename"
  /\ script_file' = temp_file
  /\ temp_file' = NoFile
  /\ Leave("ok")
  /\ UNCHANGED << args, history >>
  /\ UNCHANGED outside_script

\* Lines 184-187 with remove_loader: os.remove(temp_path), nothing more.
RemoveTempOnly ==
  /\ pc = "commit"
  /\ ~old_loader_found
  /\ remove_loader
  /\ temp_file' = NoFile
  /\ Leave("ok")
  /\ UNCHANGED << script_file, args, history >>
  /\ UNCHANGED outside_script

\* Lines 184-187 without remove_loader: os.remove(temp_path).
RemoveTemp ==
  /\ pc = "commit"
  /\ ~old_loader_found
  /\ ~remove_loader
  /\ temp_file' = NoFile
  /\ pc' = "append"
  /\ UNCHANGED << script_file, args, old_loader_found, last_line, in_marked_section,
                  just_wrote_loader, orig_file, result, history >>
  /\ UNCHANGED outside_script

\* Lines 188-195: the loader appended to the script.
AppendLoader ==
  /\ pc = "append"
  /\ script_file' =
       File(script_file.data \o AppendSeparator(last_line) \o LoaderBlock(load_target))
  /\ Leave("ok")
  /\ UNCHANGED << temp_file, args, history >>
  /\ UNCHANGED outside_script

update_loader_in_script ==
  \/ OpenMissingRemove
  \/ OpenMissingCreate
  \/ OpenExisting
  \/ ScanLine
  \/ ScanEndRaise
  \/ ScanEnd
  \/ RemoveScript
  \/ RenameTemp
  \/ RemoveTempOnly
  \/ RemoveTemp
  \/ AppendLoader

Next == Call \/ update_loader_in_script

Spec == Init /\ [][Next]_all_vars

\* ------------------------------------------- vocabulary of the properties

\* The loader as the script should hold it for load target t, written out.
ExpectedLoader(t) ==
  << "# Do not tamper with this code or the surrounding sentinels.", NL,
     "# To remove this, it is best to run the bytesized utilities uninstaller.", NL,
     "# For more info, see: https://github.com/bytesized/utilities", NL,
     "if [[ -r \"", t, "\" && \"$_B_BASHRC_LOADED\" != \"true\" ]]", NL,
     "then", NL,
     "  . \"", t, "\"", NL,
     "fi", NL >>

ExpectedBlock(t) == LOADER_START_SENTINEL \o ExpectedLoader(t) \o LOADER_END_SENTINEL

\* Line i of ls lies inside a marked section: a start sentinel precedes it with
\* no end sentinel in between.
Inside(ls, i) ==
  \E j \in 1..(i - 1) :
    /\ ls[j] = LOADER_START_SENTINEL
    /\ \A k \in (j + 1)..(i - 1) : ls[k] # LOADER_END_SENTINEL

NestedStart(ls) == \E i \in 1..Len(ls) : ls[i] = LOADER_START_SENTINEL /\ Inside(ls, i)

OrphanEnd(ls) == \E i \in 1..Len(ls) : ls[i] = LOADER_END_SENTINEL /\ ~Inside(ls, i)

Unterminated(ls) == Inside(ls, Len(ls) + 1)

Malformed(ls) == NestedStart(ls) \/ OrphanEnd(ls) \/ Unterminated(ls)

StartIdx(ls) == { i \in 1..Len(ls) : ls[i] = LOADER_START_SENTINEL }

EndIdx(ls) == { i \in 1..Len(ls) : ls[i] = LOADER_END_SENTINEL }

NoSentinel(ls) == StartIdx(ls) = {} /\ EndIdx(ls) = {}

\* Exactly one start sentinel, and after it exactly one end sentinel.
OnePair(ls) ==
  /\ Cardinality(StartIdx(ls)) = 1
  /\ Cardinality(EndIdx(ls)) = 1
  /\ \A s \in StartIdx(ls), e \in EndIdx(ls) : s < e

FirstStart(ls) == CHOOSE s \in StartIdx(ls) : \A x \in StartIdx(ls) : s <= x

\* The lines before the pair, and the lines after it.
BeforePair(ls) == SubSeq(ls, 1, FirstStart(ls) - 1)

AfterPair(ls) == SubSeq(ls, (CHOOSE e \in EndIdx(ls) : TRUE) + 1, Len(ls))

\* The blank-line separator an append needs after text d.
ExpectedSeparator(d) ==
  IF d = <<>> THEN <<>>
  ELSE IF d[Len(d)] # NL THEN <<NL, NL>>
  ELSE IF Len(d) = 1 \/ d[Len(d) - 1] = NL THEN <<>>
  ELSE <<NL>>

BeforeLines == ReadLines(before.data)

ScriptLines == ReadLines(script_file.data)

Finished == pc = "done"

\* The call before this one inserted the loader and succeeded.
AfterInsert == prev.called /\ ~prev.remove_loader /\ prev.result = "ok"

\* ------------------------------------------------------------- properties

\* C1: when a call without remove_loader has succeeded and the next call has the
\* same arguments, the script is, once that call has ended, exactly what the
\* first call left.
C1_InsertTwiceSameFile ==
  ( /\ Finished
    /\ AfterInsert
    /\ ~remove_loader
    /\ load_target = prev.load_target )
  => script_file = before

\* The second call rewrote the script, replacing the pair the first call had
\* put in place of an older pair.
C1_Witness ==
  /\ Finished
  /\ AfterInsert
  /\ ~remove_loader
  /\ load_target = prev.load_target
  /\ result = "ok"
  /\ prev.before.exists
  /\ OnePair(ReadLines(prev.before.data))
  /\ prev.before # before
  /\ script_file = before

\* C2: while the script is scanned, and when the call has ended with
\* BadFileContents, the script exists and holds what it held when the call began.
C2_ErrorLeavesScript ==
  (pc = "scan" \/ (Finished /\ result = BadFileContents))
  => (script_file.exists /\ script_file = before)

\* A call ended with BadFileContents after the scratch file had been written to.
C2_Witness ==
  /\ Finished
  /\ result = BadFileContents
  /\ temp_file.exists
  /\ temp_file.data # <<>>
  /\ script_file = before

\* C3: a call on an existing script ends with BadFileContents exactly when its
\* lines hold a start sentinel inside a marked section, an end sentinel outside
\* one, or end inside one.
C3_RaisesIffMalformed ==
  (Finished /\ before.exists)
  => (result = BadFileContents <=> Malformed(BeforeLines))

\* A call raised on a second start sentinel, in a file with neither of the other
\* two conditions.
C3_Witness ==
  /\ Finished
  /\ before.exists
  /\ result = BadFileContents
  /\ NestedStart(BeforeLines)
  /\ ~OrphanEnd(BeforeLines)
  /\ ~Unterminated(BeforeLines)

\* C4: a call without remove_loader on an existing script with no sentinel line
\* leaves the old text, then the separator (nothing after a blank last line or in
\* an empty file, one newline after a terminated line, two after an unterminated
\* one), then the start sentinel, the loader for the target, the end sentinel.
C4_AppendToMarkerFree ==
  (Finished /\ ~remove_loader /\ before.exists /\ NoSentinel(BeforeLines))
  => /\ result = "ok"
     /\ script_file =
          File(before.data \o ExpectedSeparator(before.data) \o ExpectedBlock(load_target))

\* The loader was appended to a script whose last line had no newline.
C4_Witness ==
  /\ Finished
  /\ ~remove_loader
  /\ before.exists
  /\ NoSentinel(BeforeLines)
  /\ before.data # <<>>
  /\ before.data[Len(before.data)] = ORDINARY_TEXT
  /\ script_file.data = before.data \o <<NL, NL>> \o ExpectedBlock(load_target)

\* C5: a call without remove_loader on a script with one well-formed pair keeps
\* the lines before the pair and the lines after it as they were and in order,
\* and puts between them the start sentinel, the loader for the target and the
\* end sentinel, with at most one blank line on either side and nothing else: no
\* line of the old inner content is left.
C5_ReplacesPair ==
  (Finished /\ ~remove_loader /\ before.exists /\ OnePair(BeforeLines))
  => /\ result = "ok"
     /\ script_file.exists
     /\ \E blank_before, blank_after \in { <<>>, <<NL>> } :
          script_file.data =
            Flatten(BeforePair(BeforeLines)) \o blank_before
              \o ExpectedBlock(load_target)
              \o blank_after \o Flatten(AfterPair(BeforeLines))

\* A pair with old inner content, and lines on both sides, was replaced.
C5_Witness ==
  /\ Finished
  /\ ~remove_loader
  /\ before.exists
  /\ OnePair(BeforeLines)
  /\ BeforePair(BeforeLines) # <<>>
  /\ AfterPair(BeforeLines) # <<>>
  /\ Len(BeforePair(BeforeLines)) + Len(AfterPair(BeforeLines)) + 2 < Len(BeforeLines)
  /\ result = "ok"
  /\ script_file # before

\* C6: a call with remove_loader on a script with one well-formed pair leaves
\* the lines before the pair followed by the lines after it, and nothing else.
C6_RemovesPair ==
  (Finished /\ remove_loader /\ before.exists /\ OnePair(BeforeLines))
  => /\ result = "ok"
     /\ script_file =
          File(Flatten(BeforePair(BeforeLines)) \o Flatten(AfterPair(BeforeLines)))

\* A pair between two ordinary lines was removed, and no blank line came to
\* stand between them.
C6_Witness ==
  /\ Finished
  /\ remove_loader
  /\ before.exists
  /\ OnePair(BeforeLines)
  /\ BeforePair(BeforeLines) # <<>>
  /\ AfterPair(BeforeLines) # <<>>
  /\ BeforePair(BeforeLines)[Len(BeforePair(BeforeLines))] = <<ORDINARY_TEXT, NL>>
  /\ Head(AfterPair(BeforeLines)) = <<ORDINARY_TEXT>>
  /\ result = "ok"
  /\ script_file.data = <<ORDINARY_TEXT, NL, ORDINARY_TEXT>>

\* C7: a call with remove_loader on a script with no sentinel line, or on a
\* missing script, succeeds and leaves the script as it was: unchanged, or absent.
C7_RemoveNothing ==
  (Finished /\ remove_loader /\ NoSentinel(BeforeLines))
  => (result = "ok" /\ script_file = before)

\* The script was missing, the call with remove_loader ended, and it is missing.
C7_Witness ==
  /\ Finished
  /\ remove_loader
  /\ ~before.exists
  /\ result = "ok"
  /\ ~script_file.exists

\* The lines of the written block, and the places where ls holds them in a row.
BlockLines(t) == ReadLines(ExpectedBlock(t))

BlockAt(ls, p, t) ==
  /\ p + Len(BlockLines(t)) - 1 <= Len(ls)
  /\ SubSeq(ls, p, p + Len(BlockLines(t)) - 1) = BlockLines(t)

\* The block at p has a blank line, or an end of the file, on each side.
SeparatedAt(ls, p, t) ==
  /\ p = 1 \/ ls[p - 1] = <<NL>>
  /\ p + Len(BlockLines(t)) - 1 = Len(ls) \/ ls[p + Len(BlockLines(t))] = <<NL>>

\* The lines of ls outside every marked section, the sentinels not counted.
OutsideIdx(ls) ==
  { i \in 1..Len(ls) :
      /\ ls[i] # LOADER_START_SENTINEL
      /\ ls[i] # LOADER_END_SENTINEL
      /\ ~Inside(ls, i) }

BlankCount(ls, idx) == Cardinality({ i \in idx : ls[i] = <<NL>> })

\* The blank lines a write of the block into ls has to add: one before it when
\* the original line just before it is not blank, one after it when the next
\* original line that is kept is not blank.
BlanksNeeded(ls) ==
  IF StartIdx(ls) = {}
  THEN IF ls # <<>> /\ ls[Len(ls)] # <<NL>> THEN 1 ELSE 0
  ELSE LET s == FirstStart(ls)
           later == { i \in OutsideIdx(ls) : i > s }
           nxt == CHOOSE i \in later : \A x \in later : i <= x
       IN  (IF s > 1 /\ ls[s - 1] # <<NL>> THEN 1 ELSE 0)
           + (IF later # {} /\ ls[nxt] # <<NL>> THEN 1 ELSE 0)

\* C8: after a successful call without remove_loader the script holds the block
\* for the target, every place it holds it has a blank line or an end of the
\* file on each side, and (for a script that existed) the blank lines of the
\* result are the blank lines kept from the original plus one per side whose
\* adjacent original line is not blank.
C8_BlockSeparated ==
  (Finished /\ ~remove_loader /\ result = "ok")
  => /\ \E p \in 1..Len(ScriptLines) : BlockAt(ScriptLines, p, load_target)
     /\ \A p \in 1..Len(ScriptLines) :
          BlockAt(ScriptLines, p, load_target) => SeparatedAt(ScriptLines, p, load_target)
     /\ before.exists =>
          BlankCount(ScriptLines, 1..Len(ScriptLines)) =
            BlankCount(BeforeLines, OutsideIdx(BeforeLines)) + BlanksNeeded(BeforeLines)

\* A pair squeezed between two ordinary lines was rewritten, and a blank line
\* was added on each side.
C8_Witness ==
  /\ Finished
  /\ ~remove_loader
  /\ result = "ok"
  /\ before.exists
  /\ StartIdx(BeforeLines) # {}
  /\ BlanksNeeded(BeforeLines) = 2
  /\ BlankCount(BeforeLines, 1..Len(BeforeLines)) = 0
  /\ BlankCount(ScriptLines, 1..Len(ScriptLines)) = 2

\* C9: a script with no sentinel line, after a successful call without
\* remove_loader and then a call with remove_loader, holds its original text
\* followed by the separator the insertion added (so the original text itself
\* when it added none).
C9_InsertThenRemove ==
  ( /\ Finished
    /\ remove_loader
    /\ AfterInsert
    /\ prev.before.exists
    /\ NoSentinel(ReadLines(prev.before.data)) )
  => script_file =
       File(prev.before.data \o ExpectedSeparator(prev.before.data))

\* C10 as stated: an empty or missing script, after a successful call without
\* remove_loader and then a call with remove_loader, is empty or absent.
C10_EmptyOrAbsentAgain ==
  ( /\ Finished
    /\ remove_loader
    /\ AfterInsert
    /\ (~prev.before.exists \/ prev.before.data = <<>>) )
  => (~script_file.exists \/ script_file.data = <<>>)

\* C10, amended: an empty script is empty again; a missing script now exists and
\* holds the shebang line and one blank line.
C10_EmptyAgainOrShebang ==
  ( /\ Finished
    /\ remove_loader
    /\ AfterInsert
    /\ (~prev.before.exists \/ prev.before.data = <<>>) )
  => /\ result = "ok"
     /\ prev.before.exists => script_file = File(<<>>)
     /\ ~prev.before.exists => script_file = File(<<"#!/bin/bash", NL, NL>>)

\* The script was missing, was created by the insertion, and the removal left
\* the two lines written before the block.
C10_Witness ==
  /\ Finished
  /\ remove_loader
  /\ AfterInsert
  /\ ~prev.before.exists
  /\ result = "ok"
  /\ script_file.exists
  /\ Len(ScriptLines) = 2

\* C11: when control is back with the caller, by return or by BadFileContents,
\* no scratch file of the call is on disk: it was renamed over the script or
\* removed.
C11_NoScratchLeft == Finished => ~temp_file.exists

\* C12: every step that changes a script which existed when the call began puts
\* the whole scratch file in its place at once: the script exists before and
\* after the step and then holds the scratch file's text, which the call leaves
\* as the script's final contents.
C12_AtomicReplace ==
  [][ (before.exists /\ script_file' # script_file)
        => /\ script_file.exists
           /\ script_file'.exists
           /\ temp_file.exists
           /\ script_file'.data = temp_file.data
           /\ pc' = "done" ]_vars

\* C15: after a successful call with remove_loader the script holds no sentinel
\* line; after one without it the script holds exactly one start sentinel and,
\* after it, exactly one end sentinel, standing where the first pair of the
\* original stood (after the same lines, and at most one added blank line), or
\* at the end of the script when the original held no pair.
C15_WellFormedResult ==
  (Finished /\ result = "ok")
  => IF remove_loader
     THEN NoSentinel(ScriptLines)
     ELSE /\ OnePair(ScriptLines)
          /\ IF StartIdx(BeforeLines) = {}
             THEN ScriptLines[Len(ScriptLines)] = LOADER_END_SENTINEL
             ELSE BeforePair(ScriptLines) \in
                    { BeforePair(BeforeLines), BeforePair(BeforeLines) \o << <<NL>> >> }

\* -------------------------------------------------------- force_remove_dir

\* What the calls of force_remove_dir leave alone.
outside_remove == << vars, installer_vars >>

InitRemove ==
  /\ script_file = NoFile
  /\ ScriptIdle
  /\ InstallerIdle
  /\ RemoveIdle

Removed == [kind |-> "removed", filename |-> 0]

FileNotFoundError == [kind |-> "FileNotFoundError", filename |-> 0]

PermissionError(p) == [kind |-> "PermissionError", filename |-> p]

\* Lines 13-15: the call.
ForceRemoveDir ==
  /\ rm_pc \in {"idle", "returned", "raised"}
  /\ rm_pc' = "rmtree"
  /\ already_fixed' = {}
  /\ ex' = NoException
  /\ outcomes' = <<>>
  /\ chmods' = [p \in Paths |-> 0]
  /\ UNCHANGED outside_remove

\* Lines 17 and 26: shutil.rmtree removes the tree.
RmtreeRemoves ==
  /\ rm_pc = "rmtree"
  /\ outcomes' = Append(outcomes, Removed)
  /\ rm_pc' = "returned"
  /\ UNCHANGED << already_fixed, ex, chmods >>
  /\ UNCHANGED outside_remove

\* Lines 17-19 and 26: shutil.rmtree raises FileNotFoundError.
RmtreeNotFound ==
  /\ rm_pc = "rmtree"
  /\ outcomes' = Append(outcomes, FileNotFoundError)
  /\ rm_pc' = "returned"
  /\ UNCHANGED << already_fixed, ex, chmods >>
  /\ UNCHANGED outside_remove

\* Lines 17 and 20: shutil.rmtree raises PermissionError on one of the paths.
RmtreeDenied ==
  /\ rm_pc = "rmtree"
  /\ \E p \in Paths :
       /\ ex' = PermissionError(p)
       /\ outcomes' = Append(outcomes, PermissionError(p))
  /\ rm_pc' = "except"
  /\ UNCHANGED << already_fixed, chmods >>
  /\ UNCHANGED outside_remove

\* Lines 21-22: the path was fixed before, the exception goes to the caller.
RaiseAgain ==
  /\ rm_pc = "except"
  /\ ex.filename \in already_fixed
  /\ rm_pc' = "raised"
  /\ UNCHANGED << already_fixed, ex, outcomes, chmods >>
  /\ UNCHANGED outside_remove

\* A faulty FixAndRetry: the path is not added to already_fixed.
FixAndRetryForgets ==
  /\ rm_pc = "except"
  /\ ex.filename \notin already_fixed
  /\ chmods' = [chmods EXCEPT ![ex.filename] = @ + 1]
  /\ rm_pc' = "rmtree"
  /\ UNCHANGED << already_fixed, ex, outcomes >>
  /\ UNCHANGED outside_remove

\* Lines 23-25: os.chmod on the path, and the loop goes round again.
FixAndRetry ==
  /\ rm_pc = "except"
  /\ ex.filename \notin already_fixed
  /\ chmods' = [chmods EXCEPT ![ex.filename] = @ + 1]
  /\ already_fixed' = already_fixed \cup {ex.filename}
  /\ rm_pc' = "rmtree"
  /\ UNCHANGED << ex, outcomes >>
  /\ UNCHANGED outside_remove

NextRemove ==
  \/ ForceRemoveDir
  \/ RmtreeRemoves
  \/ RmtreeNotFound
  \/ RmtreeDenied
  \/ RaiseAgain
  \/ FixAndRetry

SpecRemove == InitRemove /\ [][NextRemove]_all_vars

\* The shutil.rmtree calls so far that raised PermissionError on path p.
DeniedAt(p) == { i \in 1..Len(outcomes) : outcomes[i] = PermissionError(p) }

LastOutcome == outcomes[Len(outcomes)]

\* C14: in a call of force_remove_dir os.chmod runs at most once on a path, and
\* exactly once on every path whose PermissionError has been handled without
\* raising; the call raises only on a PermissionError that names a path denied
\* and fixed before; it returns only after a shutil.rmtree that removed the tree
\* or raised FileNotFoundError; until it ends every shutil.rmtree was denied on
\* a path of its own; and shutil.rmtree runs at most once more than there are
\* paths, so the loop ends.
C14_OneRetryPerPath ==
  /\ \A p \in Paths : chmods[p] <= 1
  /\ rm_pc \in {"rmtree", "returned"} =>
       \A p \in Paths : chmods[p] = 1 <=> DeniedAt(p) # {}
  /\ rm_pc = "raised" =>
       /\ LastOutcome.kind = "PermissionError"
       /\ Cardinality(DeniedAt(LastOutcome.filename)) = 2
       /\ \A p \in Paths : chmods[p] = 1 <=> DeniedAt(p) # {}
  /\ rm_pc = "returned" => LastOutcome \in {Removed, FileNotFoundError}
  /\ rm_pc = "rmtree" =>
       /\ \A i \in 1..Len(outcomes) : outcomes[i].kind = "PermissionError"
       /\ \A p \in Paths : Cardinality(DeniedAt(p)) <= 1
  /\ Len(outcomes) <= Cardinality(Paths) + 1

\* Two paths were denied and fixed in turn, then the first was denied again and
\* the call raised.
C14_Witness ==
  /\ rm_pc = "raised"
  /\ Len(outcomes) = 3
  /\ outcomes[1] = outcomes[3]
  /\ outcomes[2] # outcomes[1]
  /\ chmods[outcomes[1].filename] = 1
  /\ chmods[outcomes[2].filename] = 1

\* ------------------------------------------------- the runs of the installer

\* What a run of the installer's configuration code leaves alone.
outside_installer == << vars, remove_vars >>

InitInstaller ==
  /\ script_file = NoFile
  /\ ScriptIdle
  /\ InstallerIdle
  /\ RemoveIdle

\* What an option of a toggle is given as on the command line, or "none".
Given == { "none", "true", "false" }

\* bool_arg_parser, lines 82-90.
bool_arg_parser(string) == string = "true"

\* Lines 169-190: the default handed to argparse for toggle t.
ArgDefault(t) == IF json_config.exists THEN json_config.data[t] ELSE Default(t)

\* The process ends, having completed (lines 277-280) or not: the run that
\* follows sees this one as the last run.
EndRun(completed) ==
  /\ last_run' =
       [ ran |-> TRUE, uninstall |-> cli.uninstall, completed |-> completed,
         config |-> config ]
  /\ run_pc' = "idle"

\* Lines 144-155: a run begins with some command line and reads the file.
StartRun ==
  /\ run_pc = "idle"
  /\ \E u \in BOOLEAN, l \in BOOLEAN, g \in [Toggles -> Given] :
       cli' = [uninstall |-> u, leave_config |-> l, given |-> g]
  /\ json_config' = install_json
  /\ run_pc' = "parse"
  /\ UNCHANGED << install_json, config, last_run >>
  /\ UNCHANGED outside_installer

\* Lines 169-197: the options are parsed and config is filled.
ParseArgs ==
  /\ run_pc = "parse"
  /\ config' =
       [ t \in Toggles |->
           IF cli.given[t] = "none" THEN ArgDefault(t) ELSE bool_arg_parser(cli.given[t]) ]
  /\ run_pc' = IF cli.uninstall THEN "stages" ELSE "validate"
  /\ UNCHANGED << install_json, json_config, cli, last_run >>
  /\ UNCHANGED outside_installer

\* Lines 199-214: an install finds a tool missing and exits.
ValidateExit ==
  /\ run_pc = "validate"
  /\ \E nt_without_cygpath \in BOOLEAN, cargo \in BOOLEAN, git \in BOOLEAN :
       nt_without_cygpath \/ (config["build"] /\ (~cargo \/ ~git))
  /\ EndRun(FALSE)
  /\ UNCHANGED << install_json, json_config, cli, config >>
  /\ UNCHANGED outside_installer

\* Lines 199-217: an install finds its tools and saves config.
SaveConfig ==
  /\ run_pc = "validate"
  /\ \E nt_without_cygpath \in BOOLEAN, cargo \in BOOLEAN, git \in BOOLEAN :
       ~(nt_without_cygpath \/ (config["build"] /\ (~cargo \/ ~git)))
  /\ install_json' = ConfigFile(config)
  /\ run_pc' = "stages"
  /\ UNCHANGED << json_config, cli, config, last_run >>
  /\ UNCHANGED outside_installer

\* Lines 227-260: a stage that runs fails, and the process ends.
StagesExit ==
  /\ run_pc = "stages"
  /\ \/ config["build"] /\ ~cli.uninstall
     \/ config["configure"]
     \/ config["python"] /\ ~cli.uninstall
  /\ EndRun(FALSE)
  /\ UNCHANGED << install_json, json_config, cli, config >>
  /\ UNCHANGED outside_installer

\* Lines 227-260 and 277-280: the stages are through; an install is complete.
StagesDone ==
  /\ run_pc = "stages"
  /\ IF cli.uninstall
     THEN run_pc' = "cleanup" /\ UNCHANGED last_run
     ELSE EndRun(TRUE)
  /\ UNCHANGED << install_json, json_config, cli, config >>
  /\ UNCHANGED outside_installer

\* Lines 263-270: with --leave-config only repos and lib are removed.
CleanupLeavingConfig ==
  /\ run_pc = "cleanup"
  /\ cli.leave_config
  /\ EndRun(TRUE)
  /\ UNCHANGED << install_json, json_config, cli, config >>
  /\ UNCHANGED outside_installer

\* Lines 271-273: the user root is removed, the configuration file with it.
CleanupRemovingConfig ==
  /\ run_pc = "cleanup"
  /\ ~cli.leave_config
  /\ install_json' = NoConfig
  /\ EndRun(TRUE)
  /\ UNCHANGED << json_config, cli, config >>
  /\ UNCHANGED outside_installer

\* Lines 271-273: force_remove_dir raises before the configuration file is
\* removed.
CleanupRaises ==
  /\ run_pc = "cleanup"
  /\ ~cli.leave_config
  /\ EndRun(FALSE)
  /\ UNCHANGED << install_json, json_config, cli, config >>
  /\ UNCHANGED outside_installer

NextInstaller ==
  \/ StartRun
  \/ ParseArgs
  \/ ValidateExit
  \/ SaveConfig
  \/ StagesExit
  \/ StagesDone
  \/ CleanupLeavingConfig
  \/ CleanupRemovingConfig
  \/ CleanupRaises

SpecInstaller == InitInstaller /\ [][NextInstaller]_all_vars

\* C13: once a run has parsed its options, every toggle whose option was not
\* given has the value it had in the run before, when that run completed,
\* whether it was an install or an uninstall.
C13_ReusesLastRun ==
  (run_pc \notin {"idle", "parse"} /\ last_run.ran /\ last_run.completed)
  => \A t \in Toggles : cli.given[t] = "none" => config[t] = last_run.config[t]

====
